---- MODULE Spec2Model ----
(***************************************************************************)
(* Signing-key lifecycle and assertion integrity of the serial-vault       *)
(* service: keypair import and background generation with its status       *)
(* tracker, account-key assertion upload, the signing log's                 *)
(* duplicate-check/append protocol and the device nonces.                   *)
(***************************************************************************)
EXTENDS Integers, Sequences, FiniteSets, TLC

VARIABLES
    keypairs,   \* the keypair table: row i is the Keypair with ID i
    tracker,    \* the keypairstatus table, keyed by (authorityID, keyName)
    workers,    \* the goroutines started by `go datastore.GenerateKeypair`
    resp,       \* the last HTTP exchange: the handler, its request key, its response
    signingLog, \* the signinglog table: row i is the entry with id i
    nonces,     \* the devicenonce table, keyed by nonce value
    issued,     \* how many nonces have been issued
    validated,  \* history: how often each nonce value has validated successfully
    signers,    \* the device signing requests in progress
    tx          \* the call of DB.transaction in progress, and the rows under it

vars == <<keypairs, tracker, workers, resp, signingLog, nonces, issued, validated, signers, tx>>
keyVars == <<keypairs, tracker, workers, resp>>
signVars == <<signingLog, nonces, issued, validated, signers>>

----------------------------------------------------------------------------
(* Bounds of the model *)

MaxWorkers == 2
MaxKeypairs == 2
MaxSigners == 2
MaxNonces == 3
NonceTTL == 1
MaxTransactions == 4

(* Strings are sequences of one-character strings, so that TrimSpace is
   computed and not assumed. *)
AuthA == <<"a">>
AuthB == <<"b">>
Authorities == {AuthA, AuthB}
KeyNames == {"k1"}
Keys == Authorities \X KeyNames
KeyID1 == <<"i", "1">>
KeyID2 == <<"i", "2">>
KeyIDs == {KeyID1, KeyID2}

NoAuthority == <<>>
NoKeyName == ""
NoKeyID == <<>>

----------------------------------------------------------------------------
(* External collaborators: users, roles and account membership *)

Users == {"alice", "bob", "eve"}

\* checkIsAdminAndGetUserFromJWT: err == nil exactly for an admin user
IsAdmin(user) == user \in {"alice", "bob"}

\* CheckUserInAccount(username, authorityID)
CheckUserInAccount(user, authorityID) ==
    \/ user = "alice" /\ authorityID \in {AuthA, AuthB}
    \/ user = "bob" /\ authorityID = AuthB

----------------------------------------------------------------------------
(* strings.TrimSpace *)

RECURSIVE TrimLeft(_)
TrimLeft(s) ==
    IF s # <<>> /\ Head(s) = " " THEN TrimLeft(Tail(s)) ELSE s

RECURSIVE TrimRight(_)
TrimRight(s) ==
    IF s # <<>> /\ s[Len(s)] = " " THEN TrimRight(SubSeq(s, 1, Len(s) - 1)) ELSE s

TrimSpace(s) == TrimRight(TrimLeft(s))

----------------------------------------------------------------------------
(* HTTP responses *)

StatusOK == 200
StatusAccepted == 202
StatusBadRequest == 400
StatusNotFound == 404

\* http.ResponseWriter: the header map the handler writes to, and the status
\* and headers that were sent.  The headers are sent with the status line, at
\* the first WriteHeader: a header set after it is in the map and is not sent.
NewResponseWriter ==
    [header |-> <<>>, wroteHeader |-> FALSE, status |-> 0, sent |-> <<>>]

\* w.Header().Set(name, value)
HeaderSet(w, name, value) == [w EXCEPT !.header = (name :> value) @@ @]

\* w.WriteHeader(status)
WriteHeader(w, status) ==
    IF w.wroteHeader THEN w
    ELSE [w EXCEPT !.wroteHeader = TRUE, !.status = status, !.sent = w.header]

\* The Location header of a response that has none
NoLocation == <<>>

\* The header of that name among the headers sent
HeaderGet(headers, name) ==
    IF name \in DOMAIN headers THEN headers[name] ELSE NoLocation

\* The handlers are atomic, and their exchanges are observed one at a time:
\* resp holds the response of the request being answered until it is sent.
\* The goroutines run meanwhile.
\* formatBooleanResponse(success, errorCode, errorSubcode, message, w), with the
\* status code given to w.WriteHeader before it (200 when WriteHeader is not called)
Response(handler, authorityID, keyName, status, success, code, message) ==
    [handler |-> handler, authorityID |-> authorityID, keyName |-> keyName,
     status |-> status, success |-> success, code |-> code, message |-> message,
     location |-> NoLocation]

NoResponse == Response("none", NoAuthority, NoKeyName, 0, FALSE, "", <<>>)

\* fmt.Sprintf("/v1/keypairs/status/%s/%s", keypair.AuthorityID, keypair.KeyName)
StatusURL(authorityID, keyName) == <<"/v1/keypairs/status", authorityID, keyName>>

----------------------------------------------------------------------------
(* verifyKeypair: the checks shared by the create and the generate handler *)

Bodies == {"nil", "empty", "invalid", "json"}

\* The requests tried: one for each way verifyKeypair refuses, and the
\* accepted ones, with the authority-id as posted (spaces included).
VerifyInput(user, body, authorityID) ==
    [user |-> user, body |-> body, authorityID |-> authorityID]

VerifyInputs ==
    { VerifyInput("eve", "json", AuthA),
      VerifyInput("alice", "nil", <<>>),
      VerifyInput("alice", "empty", <<>>),
      VerifyInput("alice", "invalid", <<>>),
      VerifyInput("alice", "json", <<" ">>),
      VerifyInput("bob", "json", <<"a", " ">>),
      VerifyInput("alice", "json", AuthA),
      VerifyInput("alice", "json", <<" ", "a", " ">>) }

\* Mutant: membership of the authority's account is not looked at
verifyKeypairSkipsAccount(user, body, authorityID) ==
    LET trimmed == TrimSpace(authorityID) IN
    IF ~IsAdmin(user) THEN
        [ok |-> FALSE, status |-> StatusOK, code |-> "error-auth", authorityID |-> NoAuthority]
    ELSE IF body = "nil" THEN
        [ok |-> FALSE, status |-> StatusBadRequest, code |-> "error-nil-data", authorityID |-> NoAuthority]
    ELSE IF body = "empty" THEN
        [ok |-> FALSE, status |-> StatusBadRequest, code |-> "error-keypair-data", authorityID |-> NoAuthority]
    ELSE IF body = "invalid" THEN
        [ok |-> FALSE, status |-> StatusBadRequest, code |-> "error-keypair-json", authorityID |-> NoAuthority]
    ELSE IF Len(trimmed) = 0 THEN
        [ok |-> FALSE, status |-> StatusBadRequest, code |-> "error-keypair-json", authorityID |-> trimmed]
    ELSE
        [ok |-> TRUE, status |-> StatusOK, code |-> "", authorityID |-> trimmed]

verifyKeypair(user, body, authorityID) ==
    LET trimmed == TrimSpace(authorityID) IN
    IF ~IsAdmin(user) THEN
        [ok |-> FALSE, status |-> StatusOK, code |-> "error-auth", authorityID |-> NoAuthority]
    ELSE IF body = "nil" THEN
        [ok |-> FALSE, status |-> StatusBadRequest, code |-> "error-nil-data", authorityID |-> NoAuthority]
    ELSE IF body = "empty" THEN
        [ok |-> FALSE, status |-> StatusBadRequest, code |-> "error-keypair-data", authorityID |-> NoAuthority]
    ELSE IF body = "invalid" THEN
        [ok |-> FALSE, status |-> StatusBadRequest, code |-> "error-keypair-json", authorityID |-> NoAuthority]
    ELSE IF Len(trimmed) = 0 THEN
        [ok |-> FALSE, status |-> StatusBadRequest, code |-> "error-keypair-json", authorityID |-> trimmed]
    ELSE IF ~CheckUserInAccount(user, trimmed) THEN
        [ok |-> FALSE, status |-> StatusBadRequest, code |-> "error-auth", authorityID |-> trimmed]
    ELSE
        [ok |-> TRUE, status |-> StatusOK, code |-> "", authorityID |-> trimmed]

----------------------------------------------------------------------------
(* Sealed Key Store *)

\* An armored private key as it is posted: whether it decodes, and the key
\* material its public key-id is derived from.
ArmoredKey(valid, material) == [valid |-> valid, material |-> material]
ArmoredKeys == {ArmoredKey(TRUE, KeyID1), ArmoredKey(TRUE, KeyID2), ArmoredKey(FALSE, KeyID1)}

\* privateKey.PublicKey().ID()
PublicKeyID(privateKey) == privateKey.material

SealedKey(keyID) == <<"sealed", keyID>>

\* Mutant: the import answers with the id of one key, whatever key was posted
ImportSigningKeyFixedID(authorityID, privateKey) ==
    IF privateKey.valid
    THEN [err |-> "", keyID |-> KeyID1, sealedKey |-> SealedKey(KeyID1)]
    ELSE [err |-> "key-decode-error", keyID |-> NoKeyID, sealedKey |-> <<>>]

\* KeypairDB.ImportSigningKey(authorityID, privateKey): err, or the key and its sealed form
ImportSigningKey(authorityID, privateKey) ==
    IF privateKey.valid
    THEN [err |-> "", keyID |-> PublicKeyID(privateKey), sealedKey |-> SealedKey(PublicKeyID(privateKey))]
    ELSE [err |-> "key-decode-error", keyID |-> NoKeyID, sealedKey |-> <<>>]

----------------------------------------------------------------------------
(* Keypair Registry *)

Keypair(authorityID, keyID, sealedKey) ==
    [authorityID |-> authorityID, keyID |-> keyID, sealedKey |-> sealedKey,
     assertion |-> "", active |-> TRUE]

KeypairExists(authorityID, keyID) ==
    \E i \in 1..Len(keypairs) :
        keypairs[i].authorityID = authorityID /\ keypairs[i].keyID = keyID

\* DB.PutKeypair(keypair): the error code, "" when the row was inserted
PutKeypairError(keypair) ==
    IF KeypairExists(keypair.authorityID, keypair.keyID) THEN "error-keypair-exists"
    ELSE IF Len(keypairs) >= MaxKeypairs THEN "error-keypair-store"
    ELSE ""

PutKeypair(keypair) ==
    IF PutKeypairError(keypair) = "" THEN Append(keypairs, keypair) ELSE keypairs

----------------------------------------------------------------------------
(* Generation Tracker *)

NoStatus == [status |-> "none", message |-> ""]
Terminal == {"Complete", "Errored"}

\* DB.GetKeypairStatus(authorityID, keyName): err != nil when there is no row
GetKeypairStatus(authorityID, keyName) == tracker[<<authorityID, keyName>>]

\* DB.CreateKeypairStatus: the check-and-insert of a new job, refused while
\* a job for the same key is Generating
CreateKeypairStatusAllowed(authorityID, keyName) ==
    GetKeypairStatus(authorityID, keyName).status # "Generating"

\* DB.UpdateKeypairStatus
UpdateKeypairStatus(authorityID, keyName, status, message) ==
    [tracker EXCEPT ![<<authorityID, keyName>>] = [status |-> status, message |-> message]]

----------------------------------------------------------------------------
(* KeypairCreateHandler: import a posted signing-key *)

\* Mutant: the handler answers the import error and goes on to store the row
KeypairCreateHandlerStoresAnyway(user, body, authorityID, keyName, privateKey) ==
    LET v == verifyKeypair(user, body, authorityID)
        imported == ImportSigningKey(v.authorityID, privateKey)
        keypair == Keypair(v.authorityID, imported.keyID, imported.sealedKey)
    IN
    /\ resp = NoResponse
    /\ v.ok
    /\ resp' = Response("create", v.authorityID, keyName, StatusBadRequest, FALSE,
                        "error-keypair-store", <<imported.err>>)
    /\ keypairs' = PutKeypair(keypair)
    /\ UNCHANGED <<tracker, workers>>
    /\ UNCHANGED signVars
    /\ UNCHANGED tx

KeypairCreateHandler(user, body, authorityID, keyName, privateKey) ==
    LET v == verifyKeypair(user, body, authorityID)
        imported == ImportSigningKey(v.authorityID, privateKey)
        keypair == Keypair(v.authorityID, imported.keyID, imported.sealedKey)
        errorCode == PutKeypairError(keypair)
    IN
    /\ resp = NoResponse
    /\ UNCHANGED <<tracker, workers>>
    /\ UNCHANGED signVars
    /\ UNCHANGED tx
    /\ IF ~v.ok THEN
            /\ resp' = Response("create", v.authorityID, keyName, v.status, FALSE, v.code, <<>>)
            /\ UNCHANGED keypairs
       ELSE IF imported.err # "" THEN
            /\ resp' = Response("create", v.authorityID, keyName, StatusBadRequest, FALSE,
                                "error-keypair-store", <<imported.err>>)
            /\ UNCHANGED keypairs
       ELSE IF errorCode # "" THEN
            /\ resp' = Response("create", v.authorityID, keyName, StatusBadRequest, FALSE,
                                errorCode, <<>>)
            /\ UNCHANGED keypairs
       ELSE
            /\ keypairs' = PutKeypair(keypair)
            /\ resp' = Response("create", v.authorityID, keyName, StatusOK, TRUE, "", <<>>)

----------------------------------------------------------------------------
(* KeypairGenerateHandler and the goroutine it starts *)

\* Mutant: the goroutine is tied to the request, and is cancelled with it when
\* the handler returns
WorkerCancelledWithRequest(authorityID, keyName) ==
    [authorityID |-> authorityID, keyName |-> keyName, pc |-> "done", err |-> ""]

\* go datastore.GenerateKeypair(keypair.AuthorityID, "", keypair.KeyName):
\* the goroutine is handed the authority and the key name only; nothing of
\* the request reaches it, and it runs on after the handler has returned.
Worker(authorityID, keyName) ==
    [authorityID |-> authorityID, keyName |-> keyName, pc |-> "spawned", err |-> ""]

WorkerKey(i) == <<workers[i].authorityID, workers[i].keyName>>

KeypairGenerateHandler(user, body, authorityID, keyName) ==
    LET v == verifyKeypair(user, body, authorityID) IN
    /\ resp = NoResponse
    /\ UNCHANGED <<keypairs, tracker>>
    /\ UNCHANGED signVars
    /\ UNCHANGED tx
    /\ IF ~v.ok THEN
            /\ resp' = Response("generate", v.authorityID, keyName, v.status, FALSE, v.code, <<>>)
            /\ UNCHANGED workers
       ELSE
            /\ Len(workers) < MaxWorkers
            /\ workers' = Append(workers, Worker(v.authorityID, keyName))
            /\ LET statusURL == StatusURL(v.authorityID, keyName)
                   verified == HeaderSet(NewResponseWriter, "Content-Type", "application/json")
                   w == HeaderSet(WriteHeader(verified, StatusAccepted), "Location", statusURL)
               IN  resp' = [Response("generate", v.authorityID, keyName, w.status, TRUE, "",
                                     statusURL)
                               EXCEPT !.location = HeaderGet(w.sent, "Location")]

\* The goroutine has returned: its locals are gone
WorkerDone(w) ==
    [authorityID |-> w.authorityID, keyName |-> w.keyName, pc |-> "done", err |-> ""]

\* GenerateKeypair, first step: create the status record of the job
GenerateKeypairStart(i) ==
    /\ i \in 1..Len(workers)
    /\ workers[i].pc = "spawned"
    /\ IF CreateKeypairStatusAllowed(workers[i].authorityID, workers[i].keyName) THEN
            /\ tracker' = UpdateKeypairStatus(workers[i].authorityID, workers[i].keyName,
                                              "Generating", "")
            /\ workers' = [workers EXCEPT ![i].pc = "generate"]
       ELSE
            /\ workers' = [workers EXCEPT ![i] = WorkerDone(workers[i])]
            /\ UNCHANGED tracker
    /\ UNCHANGED <<keypairs, resp>>
    /\ UNCHANGED signVars
    /\ UNCHANGED tx

\* Sealed Key Store Generate produced the key with this id, and Keypair
\* Registry Put is called with it
GenerateAndPut(i, keyID) ==
    LET keypair == Keypair(workers[i].authorityID, keyID, SealedKey(keyID))
        errorCode == PutKeypairError(keypair)
    IN
    /\ keypairs' = PutKeypair(keypair)
    /\ workers' = IF errorCode = ""
                  THEN [workers EXCEPT ![i].pc = "stored"]
                  ELSE [workers EXCEPT ![i].pc = "failed", ![i].err = errorCode]

\* Sealed Key Store Generate failed: Put is not called
GenerateFailed(i) ==
    /\ workers' = [workers EXCEPT ![i].pc = "failed", ![i].err = "seal-error"]
    /\ UNCHANGED keypairs

\* GenerateKeypair, second step: generate the key (which touches no shared
\* state) and store it in the registry
GenerateKeypairStore(i) ==
    /\ i \in 1..Len(workers)
    /\ workers[i].pc = "generate"
    /\ \/ \E keyID \in KeyIDs : GenerateAndPut(i, keyID)
       \/ GenerateFailed(i)
    /\ UNCHANGED <<tracker, resp>>
    /\ UNCHANGED signVars
    /\ UNCHANGED tx

\* The status the worker leaves behind
FinalStatus(pc) == IF pc = "stored" THEN "Complete" ELSE "Errored"

\* GenerateKeypair, last step: record the outcome
GenerateKeypairFinish(i) ==
    /\ i \in 1..Len(workers)
    /\ workers[i].pc \in {"stored", "failed"}
    /\ tracker' = UpdateKeypairStatus(workers[i].authorityID, workers[i].keyName,
                                      FinalStatus(workers[i].pc), workers[i].err)
    /\ workers' = [workers EXCEPT ![i] = WorkerDone(workers[i])]
    /\ UNCHANGED <<keypairs, resp>>
    /\ UNCHANGED signVars
    /\ UNCHANGED tx

\* The next step of goroutine i, whichever it is
GenerateKeypair(i) ==
    \/ GenerateKeypairStart(i)
    \/ GenerateKeypairStore(i)
    \/ GenerateKeypairFinish(i)

----------------------------------------------------------------------------
(* KeypairStatusHandler: poll the status of one key *)

\* Mutant: a poll that finds a finished job reports it and drops its record
KeypairStatusHandlerClears(user, authorityID, keyName) ==
    LET ks == GetKeypairStatus(authorityID, keyName) IN
    /\ resp = NoResponse
    /\ IsAdmin(user)
    /\ CheckUserInAccount(user, authorityID)
    /\ ks.status \in Terminal
    /\ resp' = Response("status", authorityID, keyName, StatusOK, TRUE, "", <<ks.status>>)
    /\ tracker' = [tracker EXCEPT ![<<authorityID, keyName>>] = NoStatus]
    /\ UNCHANGED <<keypairs, workers>>
    /\ UNCHANGED signVars
    /\ UNCHANGED tx

KeypairStatusHandler(user, authorityID, keyName) ==
    LET ks == GetKeypairStatus(authorityID, keyName) IN
    /\ resp = NoResponse
    /\ resp' =
        IF ~IsAdmin(user) THEN
            Response("status", authorityID, keyName, StatusOK, FALSE, "error-auth", <<>>)
        ELSE IF ~CheckUserInAccount(user, authorityID) THEN
            Response("status", authorityID, keyName, StatusBadRequest, FALSE, "error-auth", <<>>)
        ELSE IF ks.status = "none" THEN
            Response("status", authorityID, keyName, StatusBadRequest, FALSE, "error-keypair-json", <<>>)
        ELSE
            Response("status", authorityID, keyName, StatusOK, TRUE, "", <<ks.status>>)
    /\ UNCHANGED <<keypairs, tracker, workers>>
    /\ UNCHANGED tx
    /\ UNCHANGED signVars

----------------------------------------------------------------------------
(* KeypairStatusProgressHandler: the status of every key the user may see *)

KeypairStatus(authorityID, keyName, status) ==
    [authorityID |-> authorityID, keyName |-> keyName, status |-> status]

\* DB.ListAllowedKeypairStatus(authorization): the status records of the
\* accounts the user belongs to
ListAllowedKeypairStatus(user) ==
    { KeypairStatus(k[1], k[2], tracker[k].status) :
        k \in { key \in Keys : /\ tracker[key].status # "none"
                               /\ CheckUserInAccount(user, key[1]) } }

\* formatKeypairStatusResponse and, for the refusals, formatBooleanResponse,
\* with the requester the response goes to
KeypairStatusResponse(user, status, success, code, ks) ==
    [handler |-> "progress", user |-> user, status |-> status, success |-> success,
     code |-> code, statuses |-> ks]

\* Mutant: the listing hands out the records of the finished jobs and drops
\* them from the tracker
KeypairStatusProgressHandlerPrunes(user, fetchFails) ==
    LET ks == ListAllowedKeypairStatus(user) IN
    /\ resp = NoResponse
    /\ IsAdmin(user)
    /\ ~fetchFails
    /\ resp' = KeypairStatusResponse(user, StatusOK, TRUE, "", ks)
    /\ tracker' = [k \in Keys |->
                     IF tracker[k].status \in Terminal /\ CheckUserInAccount(user, k[1])
                     THEN NoStatus ELSE tracker[k]]
    /\ UNCHANGED <<keypairs, workers>>
    /\ UNCHANGED signVars
    /\ UNCHANGED tx

\* fetchFails: the database query of ListAllowedKeypairStatus returns an error
KeypairStatusProgressHandler(user, fetchFails) ==
    LET ks == ListAllowedKeypairStatus(user) IN
    /\ resp = NoResponse
    /\ resp' =
        IF ~IsAdmin(user) THEN
            KeypairStatusResponse(user, StatusOK, FALSE, "error-auth", {})
        ELSE IF fetchFails THEN
            KeypairStatusResponse(user, StatusBadRequest, FALSE, "error-keypair-json", {})
        ELSE
            KeypairStatusResponse(user, StatusOK, TRUE, "", ks)
    /\ UNCHANGED <<keypairs, tracker, workers>>
    /\ UNCHANGED tx
    /\ UNCHANGED signVars

----------------------------------------------------------------------------
(* KeypairAssertionHandler: attach an account-key assertion to a keypair *)

AccountKeyTypeName == "account-key"

\* An uploaded assertion: whether its base64 decodes, whether asserts.Decode
\* accepts it, its type name and its headers.
Assertion(text, base64ok, decodes, type, headers) ==
    [text |-> text, base64ok |-> base64ok, decodes |-> decodes, type |-> type, headers |-> headers]

AssertionInputs ==
    { Assertion("not-base64", FALSE, FALSE, "", <<>>),
      Assertion("garbage", TRUE, FALSE, "", <<>>),
      Assertion("model-a", TRUE, TRUE, "model", [x \in {"account-id"} |-> AuthA]),
      Assertion("account-key-a-1", TRUE, TRUE, AccountKeyTypeName,
                [x \in {"account-id", "public-key-sha3-384"} |->
                    IF x = "account-id" THEN AuthA ELSE KeyID1]),
      Assertion("account-key-b-2", TRUE, TRUE, AccountKeyTypeName,
                [x \in {"account-id", "public-key-sha3-384"} |->
                    IF x = "account-id" THEN AuthB ELSE KeyID2]) }

AccountKeyA == Assertion("account-key-a-1", TRUE, TRUE, AccountKeyTypeName,
                         [x \in {"account-id", "public-key-sha3-384"} |->
                             IF x = "account-id" THEN AuthA ELSE KeyID1])

\* Account-key assertions that lack one of the two headers the handler reads
MissingHeaderInputs ==
    { Assertion("account-key-a-nokey", TRUE, TRUE, AccountKeyTypeName,
                [x \in {"account-id"} |-> AuthA]),
      Assertion("account-key-noaccount-1", TRUE, TRUE, AccountKeyTypeName,
                [x \in {"public-key-sha3-384"} |-> KeyID1]) }

\* The uploads tried: one for each way the handler refuses before it
\* decodes, and every assertion for the keypair ids in and out of the table.
AssertionRequest(user, body, id, assertion) ==
    [user |-> user, body |-> body, id |-> id, assertion |-> assertion]

AssertionRequests ==
    { AssertionRequest("eve", "json", 1, AccountKeyA),
      AssertionRequest("alice", "nil", 1, AccountKeyA),
      AssertionRequest("alice", "empty", 1, AccountKeyA),
      AssertionRequest("alice", "invalid", 1, AccountKeyA),
      AssertionRequest("alice", "json", 0, AccountKeyA) }
    \cup { AssertionRequest(user, "json", id, assertion) :
                user \in {"alice", "bob"}, id \in 1..(MaxKeypairs + 1),
                assertion \in AssertionInputs }

\* The uploads with the header-less assertions added
AssertionUploads ==
    AssertionRequests
        \cup { AssertionRequest(user, "json", id, assertion) :
                    user \in {"alice", "bob"}, id \in 1..MaxKeypairs,
                    assertion \in MissingHeaderInputs }

\* assertion.HeaderString(name): the empty string when the header is absent
HeaderString(assertion, name) ==
    IF name \in DOMAIN assertion.headers THEN assertion.headers[name] ELSE <<>>

\* Mutant: the update does not ask whether the requester administers the
\* authority the assertion declares
UpdateKeypairAssertionErrorNoAuth(id, authorityID, user) ==
    IF id \notin 1..Len(keypairs) THEN "error-keypair-not-found" ELSE ""

\* DB.UpdateKeypairAssertion(keypair, authorization): the error code, "" on success
UpdateKeypairAssertionError(id, authorityID, user) ==
    IF ~CheckUserInAccount(user, authorityID) THEN "error-auth"
    ELSE IF id \notin 1..Len(keypairs) THEN "error-keypair-not-found"
    ELSE ""

UpdateKeypairAssertion(keypair) ==
    [keypairs EXCEPT ![keypair.id].authorityID = keypair.authorityID,
                     ![keypair.id].keyID = keypair.keyID,
                     ![keypair.id].assertion = keypair.assertion]

\* Mutant: the assertion text is left out of the keypair that is stored
AssertionKeypairNoText(id, assertion) ==
    [id |-> id,
     authorityID |-> HeaderString(assertion, "account-id"),
     keyID |-> HeaderString(assertion, "public-key-sha3-384"),
     assertion |-> ""]

\* The datastore.Keypair the handler builds from the request and the assertion
AssertionKeypair(id, assertion) ==
    [id |-> id,
     authorityID |-> HeaderString(assertion, "account-id"),
     keyID |-> HeaderString(assertion, "public-key-sha3-384"),
     assertion |-> assertion.text]

\* Mutant: every decoded assertion passes for an account-key
WrongAssertionTypeNever(assertion) == FALSE

\* assertion.Type().Name != asserts.AccountKeyType.Name
WrongAssertionType(assertion) == assertion.type # AccountKeyTypeName

\* fmt.Sprintf("An assertion of type '%s' is required", asserts.AccountKeyType.Name)
WrongAssertionTypeMessage == <<"An assertion of type", AccountKeyTypeName, "is required">>

KeypairAssertionHandler(user, body, id, assertion) ==
    LET keypair == AssertionKeypair(id, assertion)
        errorCode == UpdateKeypairAssertionError(id, keypair.authorityID, user)
        Reply(status, success, code) ==
            Response("assertion", NoAuthority, NoKeyName, status, success, code, <<>>)
    IN
    /\ resp = NoResponse
    /\ UNCHANGED <<tracker, workers>>
    /\ UNCHANGED signVars
    /\ UNCHANGED tx
    /\ IF ~IsAdmin(user) THEN
            resp' = Reply(StatusOK, FALSE, "error-auth") /\ UNCHANGED keypairs
       ELSE IF body = "nil" THEN
            resp' = Reply(StatusBadRequest, FALSE, "error-nil-data") /\ UNCHANGED keypairs
       ELSE IF body = "empty" THEN
            resp' = Reply(StatusBadRequest, FALSE, "error-assertion-data") /\ UNCHANGED keypairs
       ELSE IF body = "invalid" THEN
            resp' = Reply(StatusBadRequest, FALSE, "error-assertion-json") /\ UNCHANGED keypairs
       ELSE IF id = 0 THEN
            resp' = Reply(StatusBadRequest, FALSE, "invalid-keypair") /\ UNCHANGED keypairs
       ELSE IF ~assertion.base64ok \/ ~assertion.decodes THEN
            resp' = Reply(StatusBadRequest, FALSE, "decode-assertion") /\ UNCHANGED keypairs
       ELSE IF WrongAssertionType(assertion) THEN
            /\ resp' = Response("assertion", NoAuthority, NoKeyName, StatusBadRequest, FALSE,
                                "invalid-assertion", WrongAssertionTypeMessage)
            /\ UNCHANGED keypairs
       ELSE IF errorCode # "" THEN
            resp' = Reply(StatusBadRequest, FALSE, errorCode) /\ UNCHANGED keypairs
       ELSE
            /\ keypairs' = UpdateKeypairAssertion(keypair)
            /\ resp' = Reply(StatusOK, TRUE, "")

----------------------------------------------------------------------------
(* KeypairDisableHandler and KeypairEnableHandler *)

\* The {id} of the URL, as text
DigitValue(c) ==
    CASE c = "0" -> 0 [] c = "1" -> 1 [] c = "2" -> 2 [] c = "3" -> 3 [] c = "4" -> 4
      [] c = "5" -> 5 [] c = "6" -> 6 [] c = "7" -> 7 [] c = "8" -> 8 [] c = "9" -> 9
      [] OTHER -> -1

DigitText(n) ==
    CASE n = 0 -> "0" [] n = 1 -> "1" [] n = 2 -> "2" [] n = 3 -> "3" [] n = 4 -> "4"
      [] n = 5 -> "5" [] n = 6 -> "6" [] n = 7 -> "7" [] n = 8 -> "8" [] OTHER -> "9"

\* strconv.Atoi(vars["id"]) on a text of digits: err for anything else
RECURSIVE AtoiFrom(_, _)
AtoiFrom(text, value) ==
    IF text = <<>> THEN [err |-> FALSE, value |-> value]
    ELSE IF DigitValue(Head(text)) < 0 THEN [err |-> TRUE, value |-> 0]
    ELSE AtoiFrom(Tail(text), 10 * value + DigitValue(Head(text)))

Atoi(text) ==
    IF text = <<>> THEN [err |-> TRUE, value |-> 0] ELSE AtoiFrom(text, 0)

\* The ids tried: no number, a number with a letter, and the ids in and out
\* of the table
IDTexts ==
    { <<"x">>, <<"1", "x">>, <<"0", "1">> }
        \cup { <<DigitText(n)>> : n \in 0..(MaxKeypairs + 1) }

\* DB.UpdateAllowedKeypairActive(keypairID, active, authorization): the error, "" on success
UpdateAllowedKeypairActiveError(keypairID, user) ==
    IF keypairID \notin 1..Len(keypairs) THEN "keypair-not-found"
    ELSE IF ~CheckUserInAccount(user, keypairs[keypairID].authorityID) THEN "keypair-not-allowed"
    ELSE ""

UpdateAllowedKeypairActive(keypairID, active) ==
    [keypairs EXCEPT ![keypairID].active = active]

\* The body the two handlers share: they differ in the flag they set
SetActiveHandler(handler, user, idText, active) ==
    LET keypairID == Atoi(idText)
        err == UpdateAllowedKeypairActiveError(keypairID.value, user)
        Reply(status, success, code, message) ==
            Response(handler, NoAuthority, NoKeyName, status, success, code, message)
    IN
    /\ resp = NoResponse
    /\ UNCHANGED <<tracker, workers>>
    /\ UNCHANGED signVars
    /\ UNCHANGED tx
    /\ IF ~IsAdmin(user) THEN
            resp' = Reply(StatusOK, FALSE, "error-auth", <<>>) /\ UNCHANGED keypairs
       ELSE IF keypairID.err THEN
            resp' = Reply(StatusNotFound, FALSE, "error-invalid-key", idText) /\ UNCHANGED keypairs
       ELSE IF err # "" THEN
            resp' = Reply(StatusBadRequest, FALSE, "error-keypair-update", <<err>>)
                /\ UNCHANGED keypairs
       ELSE
            /\ keypairs' = UpdateAllowedKeypairActive(keypairID.value, active)
            /\ resp' = Reply(StatusOK, TRUE, "", <<>>)

\* Mutant: disabling a keypair deletes its row
KeypairDisableHandlerDeletes(user, idText) ==
    LET keypairID == Atoi(idText).value IN
    /\ resp = NoResponse
    /\ IsAdmin(user)
    /\ keypairID \in 1..Len(keypairs)
    /\ keypairs' = SubSeq(keypairs, 1, keypairID - 1)
                        \o SubSeq(keypairs, keypairID + 1, Len(keypairs))
    /\ resp' = Response("disable", NoAuthority, NoKeyName, StatusOK, TRUE, "", <<>>)
    /\ UNCHANGED <<tracker, workers>>
    /\ UNCHANGED signVars
    /\ UNCHANGED tx

KeypairDisableHandler(user, idText) == SetActiveHandler("disable", user, idText, FALSE)

KeypairEnableHandler(user, idText) == SetActiveHandler("enable", user, idText, TRUE)

----------------------------------------------------------------------------
(* Device Nonce Issuer *)

\* The nonce values: value n is the n-th token drawn, and 0 is a value that
\* was never issued.  A random token is never drawn twice.
NonceValues == 0..MaxNonces

\* A nonce row: the time since it was created, and whether it was consumed.
\* An age past the time-to-live stays there: the nonce has expired.
DeviceNonce(age) == [age |-> age, used |-> FALSE]

Expired(nonce) == nonces[nonce].age > NonceTTL

\* DB.CreateDeviceNonce()
CreateDeviceNonce ==
    /\ issued < MaxNonces
    /\ issued' = issued + 1
    /\ nonces' = nonces @@ ((issued + 1) :> DeviceNonce(0))
    /\ UNCHANGED <<signingLog, validated, signers>>
    /\ UNCHANGED keyVars
    /\ UNCHANGED tx

\* Mutant: a nonce that was validated before is not told from a new one
ValidateDeviceNonceErrorIgnoresUsed(nonce) ==
    IF nonce \notin DOMAIN nonces THEN "nonce-not-found"
    ELSE IF Expired(nonce) THEN "nonce-expired"
    ELSE ""

\* Mutant: the time-to-live is not looked at
ValidateDeviceNonceErrorIgnoresExpiry(nonce) ==
    IF nonce \notin DOMAIN nonces THEN "nonce-not-found"
    ELSE IF nonces[nonce].used THEN "nonce-already-used"
    ELSE ""

\* DB.ValidateDeviceNonce(nonce): the error, "" on success
ValidateDeviceNonceError(nonce) ==
    IF nonce \notin DOMAIN nonces THEN "nonce-not-found"
    ELSE IF Expired(nonce) THEN "nonce-expired"
    ELSE IF nonces[nonce].used THEN "nonce-already-used"
    ELSE ""

\* DB.ValidateDeviceNonce(nonce): the table it leaves
ValidateDeviceNonce(nonce) ==
    IF ValidateDeviceNonceError(nonce) = ""
    THEN [nonces EXCEPT ![nonce].used = TRUE]
    ELSE nonces

\* Mutant: the purge empties the table
DeleteEveryDeviceNonce ==
    /\ \E n \in DOMAIN nonces : Expired(n)
    /\ nonces' = <<>>
    /\ UNCHANGED <<signingLog, issued, validated, signers>>
    /\ UNCHANGED keyVars
    /\ UNCHANGED tx

\* DB.DeleteExpiredDeviceNonces()
DeleteExpiredDeviceNonces ==
    /\ \E n \in DOMAIN nonces : Expired(n)
    /\ nonces' = [n \in {m \in DOMAIN nonces : ~Expired(m)} |-> nonces[n]]
    /\ UNCHANGED <<signingLog, issued, validated, signers>>
    /\ UNCHANGED keyVars
    /\ UNCHANGED tx

\* Time passes: every nonce that has not expired yet grows older
Tick ==
    /\ \E n \in DOMAIN nonces : ~Expired(n)
    /\ nonces' = [n \in DOMAIN nonces |->
                     IF Expired(n) THEN nonces[n] ELSE [nonces[n] EXCEPT !.age = @ + 1]]
    /\ UNCHANGED <<signingLog, issued, validated, signers>>
    /\ UNCHANGED keyVars
    /\ UNCHANGED tx

----------------------------------------------------------------------------
(* Signing Log *)

Device(make, model, serialNumber, fingerprint) ==
    [make |-> make, model |-> model, serialNumber |-> serialNumber,
     fingerprint |-> fingerprint]

Devices == { Device("acme", "m1", "s1", "f1"), Device("acme", "m1", "s1", "f2") }
NoDevice == Device("", "", "", "")

SigningLog(id, device) ==
    [id |-> id, make |-> device.make, model |-> device.model,
     serialNumber |-> device.serialNumber, fingerprint |-> device.fingerprint]

\* The rows the duplicate lookup selects
Matching(device) ==
    { i \in 1..Len(signingLog) :
        /\ signingLog[i].make = device.make
        /\ signingLog[i].model = device.model
        /\ signingLog[i].serialNumber = device.serialNumber
        /\ signingLog[i].fingerprint = device.fingerprint }

\* DB.CheckForDuplicate(signLog): the (isDuplicate, existingID) it may return;
\* the lookup returns one of the rows it selects
CheckForDuplicate(device) ==
    IF Matching(device) = {}
    THEN { [duplicate |-> FALSE, id |-> 0] }
    ELSE { [duplicate |-> TRUE, id |-> signingLog[i].id] : i \in Matching(device) }

\* Mutant: an entry for a device replaces the entry the log ends with
CreateSigningLogReplaces(device) ==
    IF signingLog = <<>>
    THEN <<SigningLog(1, device)>>
    ELSE [signingLog EXCEPT ![Len(signingLog)] = SigningLog(Len(signingLog), device)]

\* DB.CreateSigningLog(signLog)
CreateSigningLog(device) ==
    Append(signingLog, SigningLog(Len(signingLog) + 1, device))

----------------------------------------------------------------------------
(* A device signing request: validate the nonce, check the log for a
   duplicate, sign and append *)

Signer(pc, device) == [pc |-> pc, device |-> device]

IdleSigner == Signer("idle", NoDevice)

\* The answer to a signing request
SignResponse(nonce, device, code, id) ==
    [handler |-> "sign", nonce |-> nonce, device |-> device, code |-> code, id |-> id]

\* The request arrives with a nonce and a device: the nonce is validated
SignValidate(i, nonce, device) ==
    LET err == ValidateDeviceNonceError(nonce) IN
    /\ signers[i].pc = "idle"
    /\ nonces' = ValidateDeviceNonce(nonce)
    /\ IF err = "" THEN
            /\ validated' = [validated EXCEPT ![nonce] = @ + 1]
            /\ signers' = [signers EXCEPT ![i] = Signer("check", device)]
            /\ UNCHANGED resp
       ELSE
            /\ resp = NoResponse
            /\ resp' = SignResponse(nonce, NoDevice, err, 0)
            /\ UNCHANGED <<validated, signers>>
    /\ UNCHANGED <<signingLog, issued>>
    /\ UNCHANGED <<keypairs, tracker, workers>>
    /\ UNCHANGED tx

\* The log is checked for an entry of the same device
SignCheckDuplicate(i) ==
    /\ signers[i].pc = "check"
    /\ \E found \in CheckForDuplicate(signers[i].device) :
          IF found.duplicate THEN
              /\ resp = NoResponse
              /\ resp' = SignResponse(0, signers[i].device, "duplicate", found.id)
              /\ signers' = [signers EXCEPT ![i] = IdleSigner]
          ELSE
              /\ signers' = [signers EXCEPT ![i].pc = "append"]
              /\ UNCHANGED resp
    /\ UNCHANGED <<signingLog, nonces, issued, validated>>
    /\ UNCHANGED <<keypairs, tracker, workers>>
    /\ UNCHANGED tx

\* The assertion is signed and the log entry appended
SignAppend(i) ==
    /\ signers[i].pc = "append"
    /\ resp = NoResponse
    /\ signingLog' = CreateSigningLog(signers[i].device)
    /\ resp' = SignResponse(0, signers[i].device, "signed", Len(signingLog) + 1)
    /\ signers' = [signers EXCEPT ![i] = IdleSigner]
    /\ UNCHANGED <<nonces, issued, validated>>
    /\ UNCHANGED <<keypairs, tracker, workers>>
    /\ UNCHANGED tx

\* The response has been written to the client
ResponseSent ==
    /\ resp # NoResponse
    /\ resp' = NoResponse
    /\ UNCHANGED <<keypairs, tracker, workers>>
    /\ UNCHANGED tx
    /\ UNCHANGED signVars

----------------------------------------------------------------------------
(* SigningLogHandler: list the signing log *)

MaxFromID == 2147483647

\* Devices of two makes: the make of a device is the authority (brand) that
\* its log entry belongs to
LogDevices == { Device(AuthA, "m1", "s1", "f1"), Device(AuthB, "m1", "s1", "f1") }

\* The fromID query parameter, as text
FromIDTexts == { <<>>, <<"x">>, <<"2">> }

\* fromID: MaxFromID when the parameter is absent or is no number
FromID(text) ==
    IF Len(text) = 0 THEN MaxFromID
    ELSE IF Atoi(text).err THEN MaxFromID
    ELSE Atoi(text).value

\* DB.ListSigningLog(fromID): the entries before fromID
ListSigningLog(fromID) == SelectSeq(signingLog, LAMBDA entry : entry.id < fromID)

\* formatSigningLogResponse, with the requester the response goes to
SigningLogResponse(user, status, success, code, logs) ==
    [handler |-> "signinglog", user |-> user, status |-> status, success |-> success,
     code |-> code, logs |-> logs]

\* The handler reads the fromID parameter and nothing else of the request:
\* who is asking plays no part in what is listed
SigningLogHandler(user, fromIDParam) ==
    /\ resp = NoResponse
    /\ resp' = SigningLogResponse(user, StatusOK, TRUE, "", ListSigningLog(FromID(fromIDParam)))
    /\ UNCHANGED <<keypairs, tracker, workers>>
    /\ UNCHANGED tx
    /\ UNCHANGED signVars

----------------------------------------------------------------------------
(* KeypairListHandler: list the keypairs of an account *)

StatusInternalServerError == 500

\* The account_code of the request path, as it is given: the two
\* authorities, an authority-id with a space after it, and an unknown one
AccountCodes == { AuthA, AuthB, <<"a", " ">>, <<"c">> }

\* Mutant: the registry lists every keypair to every administrator
ListAllowedKeypairsAll(user) == keypairs

\* DB.ListAllowedKeypairs(authorization): the keypairs of the accounts the
\* user belongs to
ListAllowedKeypairs(user) ==
    SelectSeq(keypairs, LAMBDA k : CheckUserInAccount(user, k.authorityID))

\* formatKeypairsResponse, with the request it answers
KeypairsResponse(user, accountCode, status, success, code, list) ==
    [handler |-> "list", user |-> user, accountCode |-> accountCode, status |-> status,
     success |-> success, code |-> code, keypairs |-> list]

\* fetchFails: the database query of ListAllowedKeypairs returns an error
KeypairListHandler(user, accountCode, fetchFails) ==
    LET userKeypairs == ListAllowedKeypairs(user) IN
    /\ resp = NoResponse
    /\ resp' =
        IF ~IsAdmin(user) THEN
            KeypairsResponse(user, accountCode, StatusOK, FALSE, "error-auth", <<>>)
        ELSE IF fetchFails THEN
            KeypairsResponse(user, accountCode, StatusInternalServerError, FALSE,
                             "error-fetch-keypairs", <<>>)
        ELSE
            KeypairsResponse(user, accountCode, StatusOK, TRUE, "",
                             SelectSeq(userKeypairs, LAMBDA k : k.authorityID = accountCode))
    /\ UNCHANGED <<keypairs, tracker, workers>>
    /\ UNCHANGED tx
    /\ UNCHANGED signVars

----------------------------------------------------------------------------
(* DB.transaction: run a function in a database transaction *)

\* The rows a function writes in its transaction
Rows == {1, 2}

\* How the function given to DB.transaction ends
TxOutcomes == {"ok", "error", "panic"}

\* No call is in progress: stored is the row the database holds, n the
\* number of calls made
IdleTx(stored, n) ==
    [pc |-> "idle", n |-> n, stored |-> stored, pending |-> stored, began |-> FALSE,
     fn |-> "none", err |-> "", commitErr |-> "", result |-> "",
     commits |-> 0, rollbacks |-> 0]

\* tx, err := db.Begin(); if err != nil { return err }
TransactionBegin(beginFails) ==
    /\ tx.pc = "idle"
    /\ tx.n < MaxTransactions
    /\ tx' = IF beginFails
             THEN [tx EXCEPT !.pc = "returned", !.n = @ + 1,
                             !.err = "begin-error", !.result = "begin-error"]
             ELSE [tx EXCEPT !.pc = "begun", !.n = @ + 1, !.began = TRUE]
    /\ UNCHANGED <<keyVars, signVars>>

\* err = txFunc(tx): the function writes a row in the transaction and
\* returns nil, returns an error, or panics (err is not assigned then)
TransactionFunc(row, outcome) ==
    /\ tx.pc = "begun"
    /\ tx' = [tx EXCEPT !.pc = "deferred", !.pending = row, !.fn = outcome,
                        !.err = IF outcome = "error" THEN "fn-error" ELSE ""]
    /\ UNCHANGED <<keyVars, signVars>>

\* return err, and the deferred function.  The function has no named
\* result: `return err` copies err to the result before the deferred
\* function runs, and the deferred `err = tx.Commit()` assigns the local
\* variable only.
TransactionDeferred(commitFails) ==
    /\ tx.pc = "deferred"
    /\ tx' =
        IF tx.fn = "panic" THEN
            [tx EXCEPT !.pc = "panicked", !.rollbacks = @ + 1, !.pending = tx.stored]
        ELSE IF tx.err # "" THEN
            [tx EXCEPT !.pc = "returned", !.result = tx.err,
                       !.rollbacks = @ + 1, !.pending = tx.stored]
        ELSE
            [tx EXCEPT !.pc = "returned", !.result = tx.err,
                       !.commits = @ + 1,
                       !.commitErr = IF commitFails THEN "commit-error" ELSE "",
                       !.err = IF commitFails THEN "commit-error" ELSE "",
                       !.stored = IF commitFails THEN tx.stored ELSE tx.pending,
                       !.pending = IF commitFails THEN tx.stored ELSE tx.pending]
    /\ UNCHANGED <<keyVars, signVars>>

\* The caller has the result, or the panic has unwound
TransactionReturned ==
    /\ tx.pc \in {"returned", "panicked"}
    /\ tx' = IdleTx(tx.stored, tx.n)
    /\ UNCHANGED <<keyVars, signVars>>

----------------------------------------------------------------------------
(* The keypair specification *)

Init ==
    /\ keypairs = <<>>
    /\ tracker = [k \in Keys |-> NoStatus]
    /\ workers = <<>>
    /\ resp = NoResponse
    /\ signingLog = <<>>
    /\ nonces = <<>>
    /\ issued = 0
    /\ validated = [n \in NonceValues |-> 0]
    /\ signers = [i \in 1..MaxSigners |-> IdleSigner]
    /\ tx = IdleTx(0, 0)

Next ==
    \/ \E in \in VerifyInputs, keyName \in KeyNames, privateKey \in ArmoredKeys :
            KeypairCreateHandler(in.user, in.body, in.authorityID, keyName, privateKey)
    \/ \E in \in VerifyInputs, keyName \in KeyNames :
            KeypairGenerateHandler(in.user, in.body, in.authorityID, keyName)
    \/ \E i \in 1..MaxWorkers : GenerateKeypair(i)
    \/ \E user \in Users, authorityID \in Authorities, keyName \in KeyNames :
            KeypairStatusHandler(user, authorityID, keyName)
    \/ \E in \in AssertionRequests :
            KeypairAssertionHandler(in.user, in.body, in.id, in.assertion)
    \/ ResponseSent

Spec == Init /\ [][Next]_vars

----------------------------------------------------------------------------
(* The device signing specification *)

SignNext ==
    \/ CreateDeviceNonce
    \/ DeleteExpiredDeviceNonces
    \/ Tick
    \/ \E i \in 1..MaxSigners, nonce \in NonceValues, device \in Devices :
            SignValidate(i, nonce, device)
    \/ \E i \in 1..MaxSigners : SignCheckDuplicate(i)
    \/ \E i \in 1..MaxSigners : SignAppend(i)
    \/ ResponseSent

SignSpec == Init /\ [][SignNext]_vars

\* The Go scheduler runs every started goroutine: a goroutine that can take
\* its next step takes it.
FairSpec == Spec /\ \A i \in 1..MaxWorkers : WF_vars(GenerateKeypair(i))

----------------------------------------------------------------------------
(* The keypair registry specification: import, assertion upload with every
   assertion tried, disable and enable *)

AssertNext ==
    \/ \E in \in VerifyInputs, keyName \in KeyNames, privateKey \in ArmoredKeys :
            KeypairCreateHandler(in.user, in.body, in.authorityID, keyName, privateKey)
    \/ \E in \in AssertionUploads :
            KeypairAssertionHandler(in.user, in.body, in.id, in.assertion)
    \/ \E user \in Users, idText \in IDTexts : KeypairDisableHandler(user, idText)
    \/ \E user \in Users, idText \in IDTexts : KeypairEnableHandler(user, idText)
    \/ ResponseSent

AssertSpec == Init /\ [][AssertNext]_vars

----------------------------------------------------------------------------
(* The signing log specification: devices of two authorities are signed for,
   and the log is listed *)

LogNext ==
    \/ CreateDeviceNonce
    \/ \E i \in 1..MaxSigners, nonce \in NonceValues, device \in LogDevices :
            SignValidate(i, nonce, device)
    \/ \E i \in 1..MaxSigners : SignCheckDuplicate(i)
    \/ \E i \in 1..MaxSigners : SignAppend(i)
    \/ \E user \in Users, fromIDParam \in FromIDTexts : SigningLogHandler(user, fromIDParam)
    \/ ResponseSent

LogSpec == Init /\ [][LogNext]_vars

----------------------------------------------------------------------------
(* The keypair listing specification: keys are imported for both authorities,
   and the keypairs of an account are listed *)

ListNext ==
    \/ \E user \in Users, authorityID \in Authorities, keyName \in KeyNames,
          privateKey \in ArmoredKeys :
            KeypairCreateHandler(user, "json", authorityID, keyName, privateKey)
    \/ \E user \in Users, accountCode \in AccountCodes, fetchFails \in BOOLEAN :
            KeypairListHandler(user, accountCode, fetchFails)
    \/ ResponseSent

ListSpec == Init /\ [][ListNext]_vars

----------------------------------------------------------------------------
(* The status polling specification: keys are generated for both authorities
   and polled, one key at a time and all at once, in a system that has
   signed for a device before *)

\* A device was signed for with the first nonce, and a second nonce waits
PollInit ==
    /\ keypairs = <<>>
    /\ tracker = [k \in Keys |-> NoStatus]
    /\ workers = <<>>
    /\ resp = NoResponse
    /\ signingLog = <<SigningLog(1, Device("acme", "m1", "s1", "f1"))>>
    /\ nonces = (1 :> [DeviceNonce(0) EXCEPT !.used = TRUE]) @@ (2 :> DeviceNonce(0))
    /\ issued = 2
    /\ validated = [n \in NonceValues |-> IF n = 1 THEN 1 ELSE 0]
    /\ signers = [i \in 1..MaxSigners |-> IdleSigner]
    /\ tx = IdleTx(0, 0)

PollNext ==
    \/ \E user \in Users, authorityID \in Authorities, keyName \in KeyNames :
            KeypairGenerateHandler(user, "json", authorityID, keyName)
    \/ \E i \in 1..MaxWorkers : GenerateKeypair(i)
    \/ \E user \in Users, authorityID \in Authorities, keyName \in KeyNames :
            KeypairStatusHandler(user, authorityID, keyName)
    \/ \E user \in Users, fetchFails \in BOOLEAN :
            KeypairStatusProgressHandler(user, fetchFails)
    \/ ResponseSent

PollSpec == PollInit /\ [][PollNext]_vars

----------------------------------------------------------------------------
(* The transaction specification: calls of DB.transaction, one after another *)

TxNext ==
    \/ \E beginFails \in BOOLEAN : TransactionBegin(beginFails)
    \/ \E row \in Rows, outcome \in TxOutcomes : TransactionFunc(row, outcome)
    \/ \E commitFails \in BOOLEAN : TransactionDeferred(commitFails)
    \/ TransactionReturned

TxSpec == Init /\ [][TxNext]_vars

----------------------------------------------------------------------------
(* The claims of the specification, C1 to C7: keypair generation *)

PolledKey == <<resp.authorityID, resp.keyName>>

\* C1: once a generate request for a key has been accepted, a status poll
\* for that key never answers "cannot find the status of the keypair".
C1_PollAfterAcceptFindsStatus ==
    (resp.handler = "status" /\ resp.code = "error-keypair-json")
        => ~ \E i \in 1..Len(workers) : WorkerKey(i) = PolledKey

\* C2: of two generate requests for the same key that are in progress
\* together only one is accepted: no two accepted jobs for one key are in
\* flight at once.
C2_OneOfTwoConcurrentAccepted ==
    \A i, j \in 1..Len(workers) :
        (i # j /\ WorkerKey(i) = WorkerKey(j))
            => (workers[i].pc = "done" \/ workers[j].pc = "done")

\* C3: while the tracker entry of a key is Generating, a generate request
\* for that key is refused and starts no goroutine.
C3_GeneratingRefusesGenerate ==
    [][\A k \in Keys :
          tracker[k].status = "Generating"
              => ~ ( /\ Len(workers') = Len(workers) + 1
                     /\ <<workers'[Len(workers')].authorityID,
                          workers'[Len(workers')].keyName>> = k )]_vars

\* C4, as claimed: a tracker entry that is Complete or Errored never changes.
C4_TerminalNeverChanges ==
    [][\A k \in Keys : tracker[k].status \in Terminal => tracker'[k] = tracker[k]]_vars

\* The step is the first step of the worker of a newly accepted request for k
Reissued(k) ==
    \E i \in 1..Len(workers) :
        /\ WorkerKey(i) = k
        /\ workers[i].pc = "spawned"
        /\ workers'[i].pc = "generate"

\* C4, amended: a Complete or Errored entry changes only when the worker of a
\* newly accepted generate request for the same key resets it to Generating;
\* no other step changes it, and a poll of it answers the terminal status
\* and leaves the record, the failure message included, as it is.
C4_TerminalUntilReissued ==
    [][ /\ \A k \in Keys :
              (tracker[k].status \in Terminal /\ tracker'[k] # tracker[k])
                  => (tracker'[k] = [status |-> "Generating", message |-> ""] /\ Reissued(k))
        /\ \A k \in Keys :
              ( /\ tracker[k].status \in Terminal
                /\ resp = NoResponse
                /\ resp'.handler = "status"
                /\ <<resp'.authorityID, resp'.keyName>> = k
                /\ resp'.code # "error-auth" )
                  => ( /\ resp'.success
                       /\ resp'.message = <<tracker[k].status>>
                       /\ tracker'[k] = tracker[k] ) ]_vars

\* C4, witness: a poll has answered Errored for a record that keeps its
\* failure message.
C4_Witness ==
    /\ resp.handler = "status"
    /\ resp.message = <<"Errored">>
    /\ tracker[PolledKey] = [status |-> "Errored", message |-> "seal-error"]

\* C5: every accepted generation job ends, and the tracker entry of its key
\* becomes Complete or Errored, whatever happens to the request.
C5_AcceptedJobTerminates ==
    \A i \in 1..MaxWorkers :
        (i <= Len(workers))
            ~> (i <= Len(workers) /\ workers[i].pc = "done"
                    /\ tracker[WorkerKey(i)].status \in Terminal)

\* C5, witness: a job has ended and its key's entry is terminal.
C5_Witness ==
    \E i \in 1..Len(workers) :
        workers[i].pc = "done" /\ tracker[WorkerKey(i)].status \in Terminal

\* C6, as claimed: after an import of a malformed key has failed, the tracker
\* entry of its (authorityID, keyName) is Errored.
C6_FailedImportIsErrored ==
    ( /\ resp.handler = "create"
      /\ resp.code = "error-keypair-store"
      /\ resp.message = <<"key-decode-error">> )
        => tracker[PolledKey].status = "Errored"

\* C6, amended: an import of a malformed key is refused and changes neither
\* the registry nor the tracker (an import has no tracker entry); a
\* generation that fails adds no Keypair row and ends with the tracker
\* Errored, not Complete.
C6_MalformedKeyStoresNothing ==
    [][ /\ \A in \in VerifyInputs, keyName \in KeyNames, privateKey \in ArmoredKeys :
              ( /\ ~privateKey.valid
                /\ KeypairCreateHandler(in.user, in.body, in.authorityID, keyName, privateKey) )
                  => ( /\ ~resp'.success
                       /\ keypairs' = keypairs
                       /\ tracker' = tracker
                       /\ workers' = workers )
        /\ \A i \in 1..Len(workers) :
              /\ (workers[i].pc = "generate" /\ workers'[i].pc = "failed")
                    => keypairs' = keypairs
              /\ (workers[i].pc = "failed" /\ workers'[i].pc = "done")
                    => ( /\ tracker'[WorkerKey(i)].status = "Errored"
                         /\ tracker'[WorkerKey(i)].message = workers[i].err
                         /\ keypairs' = keypairs ) ]_vars

\* C6, witness: an import was refused for its malformed key while the
\* registry holds a row, and a failed generation has left its entry Errored.
C6_Witness ==
    /\ resp.handler = "create"
    /\ resp.message = <<"key-decode-error">>
    /\ Len(keypairs) > 0
    /\ \E k \in Keys : tracker[k].status = "Errored"

\* C7, as claimed: in every state where the status of (authorityID, keyName)
\* is Complete, a Keypair with that authorityID is in the registry.
C7_CompleteHasKeypairOfAuthority ==
    \A k \in Keys :
        tracker[k].status = "Complete"
            => \E r \in 1..Len(keypairs) : keypairs[r].authorityID = k[1]

\* C7, amended: the worker sets Complete exactly when Generate and Put have
\* both succeeded, Put having inserted a Keypair of the job's authority, and
\* Errored otherwise; so while the status is Complete the registry holds a
\* Keypair of that authority, or a row whose authority an uploaded assertion
\* has overwritten.
C7_CompleteOnlyAfterPut ==
    /\ [](\A k \in Keys :
            tracker[k].status = "Complete"
                => \E r \in 1..Len(keypairs) :
                      keypairs[r].authorityID = k[1] \/ keypairs[r].assertion # "")
    /\ [][\A i \in 1..Len(workers) :
            /\ (workers[i].pc # "done" /\ workers'[i].pc = "done" /\ tracker' # tracker)
                  => ( /\ workers[i].pc \in {"stored", "failed"}
                       /\ tracker'[WorkerKey(i)].status =
                              IF workers[i].pc = "stored" THEN "Complete" ELSE "Errored" )
            /\ (workers[i].pc # "stored" /\ workers'[i].pc = "stored")
                  => ( /\ workers[i].pc = "generate"
                       /\ Len(keypairs') = Len(keypairs) + 1
                       /\ keypairs'[Len(keypairs')].authorityID = workers[i].authorityID
                       /\ keypairs'[Len(keypairs')].keyID \in KeyIDs )
            /\ (workers[i].pc # "failed" /\ workers'[i].pc = "failed")
                  => keypairs' = keypairs ]_vars

\* C7, witness: a job is Complete and the row stored for it has since been
\* given to the other authority by an uploaded assertion.
C7_Witness ==
    /\ tracker[<<AuthA, "k1">>].status = "Complete"
    /\ Len(keypairs) = 1
    /\ keypairs[1].authorityID = AuthB

----------------------------------------------------------------------------
(* The claims of the specification, C8 to C10: signing log and nonces *)

SameDevice(e, f) ==
    /\ e.make = f.make
    /\ e.model = f.model
    /\ e.serialNumber = f.serialNumber
    /\ e.fingerprint = f.fingerprint

\* C8: the signing log never holds two entries with the same
\* (make, model, serialNumber, fingerprint).
C8_NoTwoEntriesOfOneDevice ==
    \A i, j \in 1..Len(signingLog) :
        SameDevice(signingLog[i], signingLog[j]) => i = j

\* C9: a duplicate is reported exactly for a device that was appended, and
\* the id it reports is the id of the entry that was appended for that
\* device.
C9_DuplicateNamesTheAppendedEntry ==
    (resp.handler = "sign" /\ resp.code = "duplicate")
        => /\ Matching(resp.device) # {}
           /\ \A i \in Matching(resp.device) : resp.id = signingLog[i].id

\* The step is a Validate of nonce n that failed with resp'.code
ValidateFailed(n) ==
    /\ resp = NoResponse
    /\ resp'.handler = "sign"
    /\ resp'.nonce = n
    /\ resp'.code \in {"nonce-not-found", "nonce-expired", "nonce-already-used"}

Validated == {n \in NonceValues : validated[n] > 0}

\* C10, as claimed: after a successful Validate of a nonce value, every later
\* Validate of that value fails with NonceAlreadyUsedError.
C10_LaterValidateIsAlreadyUsed ==
    [][\A n \in Validated :
          /\ validated'[n] = validated[n]
          /\ ValidateFailed(n) => resp'.code = "nonce-already-used"]_vars

\* C10, amended: a nonce value validates successfully at most once; a later
\* Validate of it fails, and with NonceAlreadyUsedError while the nonce is
\* still within its time-to-live.
C10_ValidatesAtMostOnce ==
    /\ [](\A n \in NonceValues : validated[n] <= 1)
    /\ [][\A n \in Validated :
            (ValidateFailed(n) /\ n \in DOMAIN nonces /\ ~Expired(n))
                => resp'.code = "nonce-already-used"]_vars

\* C10, witness: a nonce that validated is presented again within its
\* time-to-live and is refused as already used.
C10_Witness ==
    /\ resp.handler = "sign"
    /\ resp.code = "nonce-already-used"
    /\ resp.nonce \in Validated
    /\ resp.nonce \in DOMAIN nonces
    /\ ~Expired(resp.nonce)

----------------------------------------------------------------------------
(* The claims of the specification, C11 and C12: nonce expiry and purge *)

\* The step is a successful Validate of nonce n
ValidateSucceeded(n) == validated'[n] = validated[n] + 1

\* Nonce n was issued and its deadline has passed: its row has expired, or
\* was purged for having expired
PastDeadline(n) ==
    /\ n \in 1..issued
    /\ (n \notin DOMAIN nonces \/ Expired(n))

\* C11, as claimed: Validate of an issued nonce past its deadline never
\* succeeds and fails with NonceExpiredError, whatever steps preceded it;
\* Validate of a value never issued fails with NonceNotFoundError.
C11_PastDeadlineIsNonceExpired ==
    [][\A n \in NonceValues :
          /\ PastDeadline(n)
                => ( /\ ~ValidateSucceeded(n)
                     /\ ValidateFailed(n) => resp'.code = "nonce-expired" )
          /\ n \notin 1..issued
                => ( /\ ~ValidateSucceeded(n)
                     /\ ValidateFailed(n) => resp'.code = "nonce-not-found" )]_vars

\* C11, amended: Validate of an issued nonce past its deadline never
\* succeeds; it fails with NonceExpiredError while the expired row is in the
\* table and with NonceNotFoundError once PurgeExpired has removed it.
\* Validate of a value never issued fails with NonceNotFoundError.
C11_PastDeadlineNeverValidates ==
    [][\A n \in NonceValues :
          /\ PastDeadline(n)
                => ( /\ ~ValidateSucceeded(n)
                     /\ ValidateFailed(n)
                            => resp'.code = IF n \in DOMAIN nonces
                                            THEN "nonce-expired" ELSE "nonce-not-found" )
          /\ n \notin 1..issued
                => ( /\ ~ValidateSucceeded(n)
                     /\ ValidateFailed(n) => resp'.code = "nonce-not-found" )]_vars

\* C11, witness: a nonce that validated in time is presented again after its
\* deadline and is refused as expired.
C11_Witness ==
    /\ resp.handler = "sign"
    /\ resp.code = "nonce-expired"
    /\ resp.nonce \in DOMAIN nonces
    /\ Expired(resp.nonce)
    /\ validated[resp.nonce] = 1

\* C12: under every interleaving of PurgeExpired with Issue and Validate, the
\* purge removes only nonces past their deadline and changes no other row; a
\* nonce that is unexpired and unused stays in the table and validates, and
\* no nonce value validates twice.
C12_PurgeKeepsLiveNonces ==
    /\ [](\A n \in NonceValues : validated[n] <= 1)
    /\ [](\A n \in DOMAIN nonces :
            (~Expired(n) /\ validated[n] = 0) => ValidateDeviceNonceError(n) = "")
    /\ [][\A n \in DOMAIN nonces :
            /\ n \notin DOMAIN nonces' => Expired(n)
            /\ ~Expired(n)
                  => ( /\ n \in DOMAIN nonces'
                       /\ nonces'[n].used = nonces[n].used \/ ValidateSucceeded(n) )]_vars

\* C12, witness: a purge has removed an expired nonce, and a nonce issued
\* after it has validated and is still within its time-to-live.
C12_Witness ==
    \E n \in 1..issued :
        /\ n \notin DOMAIN nonces
        /\ \E m \in DOMAIN nonces : m > n /\ validated[m] = 1 /\ ~Expired(m)

----------------------------------------------------------------------------
(* The claims of the specification, C13 to C18: the keypair registry *)

\* C13: no two Keypair rows share (authorityID, keyID), after any sequence of
\* Put, SetActive and AttachAssertion.
C13_AuthorityKeyIDUnique ==
    \A i, j \in 1..Len(keypairs) :
        (keypairs[i].authorityID = keypairs[j].authorityID
            /\ keypairs[i].keyID = keypairs[j].keyID) => i = j

\* The upload passes every check the handler makes before the update
ReachesUpdate(in) ==
    /\ IsAdmin(in.user)
    /\ in.body = "json"
    /\ in.id # 0
    /\ in.assertion.base64ok
    /\ in.assertion.decodes
    /\ ~WrongAssertionType(in.assertion)

\* The authority an uploaded assertion declares
Declared(in) == HeaderString(in.assertion, "account-id")

\* Row i keeps its authorityID, keyID and assertion in the step
SameIdentity(i) ==
    /\ keypairs'[i].authorityID = keypairs[i].authorityID
    /\ keypairs'[i].keyID = keypairs[i].keyID
    /\ keypairs'[i].assertion = keypairs[i].assertion

\* C14: an upload changes a Keypair only when the requester is permitted to
\* administer the authority the assertion declares, and then sets the
\* assertion text, keyID and authorityID of the addressed row from the
\* assertion; an upload by a requester who is not permitted fails with the
\* authorization error and changes nothing; no other operation changes the
\* authorityID, keyID or assertion of a row.
C14_AttachOnlyWhenPermitted ==
    [][ /\ \A in \in AssertionUploads :
              ( /\ resp'.handler = "assertion"
                /\ KeypairAssertionHandler(in.user, in.body, in.id, in.assertion) )
                  => /\ keypairs' # keypairs
                          => ( /\ CheckUserInAccount(in.user, Declared(in))
                               /\ resp'.success
                               /\ keypairs' =
                                    [keypairs EXCEPT
                                        ![in.id].authorityID = Declared(in),
                                        ![in.id].keyID =
                                            HeaderString(in.assertion, "public-key-sha3-384"),
                                        ![in.id].assertion = in.assertion.text] )
                     /\ (ReachesUpdate(in) /\ ~CheckUserInAccount(in.user, Declared(in)))
                          => ( /\ resp'.code = "error-auth"
                               /\ ~resp'.success
                               /\ keypairs' = keypairs )
        /\ \A i \in 1..Len(keypairs) :
              /\ i <= Len(keypairs')
              /\ ~SameIdentity(i) => (resp'.handler = "assertion" /\ resp'.success) ]_vars

\* C14, witness: bob, who administers authority b only, was refused the
\* upload of an assertion of authority a, and an assertion is attached.
C14_Witness ==
    /\ resp.handler = "assertion"
    /\ resp.code = "error-auth"
    /\ resp.status = StatusBadRequest
    /\ \E i \in 1..Len(keypairs) : keypairs[i].assertion = "account-key-a-1"

\* C15: an uploaded assertion that does not decode, or that decodes to a type
\* other than account-key, is rejected before any registry update: the
\* upload fails and leaves the registry as it was, and every assertion
\* attached to a Keypair is a decoded account-key assertion.
C15_UndecodedOrWrongTypeNotAttached ==
    /\ [](\A i \in 1..Len(keypairs) :
            keypairs[i].assertion # ""
                => \E a \in AssertionInputs \cup MissingHeaderInputs :
                      /\ a.text = keypairs[i].assertion
                      /\ a.base64ok /\ a.decodes /\ a.type = AccountKeyTypeName)
    /\ [][\A in \in AssertionUploads :
            ( /\ resp'.handler = "assertion"
              /\ KeypairAssertionHandler(in.user, in.body, in.id, in.assertion)
              /\ (~in.assertion.base64ok \/ ~in.assertion.decodes
                    \/ in.assertion.type # AccountKeyTypeName) )
                => ( /\ ~resp'.success
                     /\ keypairs' = keypairs
                     /\ tracker' = tracker ) ]_vars

\* C15, witness: a model assertion was refused for its type while the
\* registry holds a row it was uploaded for.
C15_Witness ==
    /\ resp.handler = "assertion"
    /\ resp.code = "invalid-assertion"
    /\ Len(keypairs) > 0

\* The text names the type
Names(message, type) == \E i \in 1..Len(message) : message[i] = type

\* C16: when a decoded assertion has a type other than account-key, the
\* error names both the expected type and the type of the submitted assertion.
C16_WrongTypeErrorNamesBothTypes ==
    [][\A in \in AssertionUploads :
          ( /\ resp'.code = "invalid-assertion"
            /\ KeypairAssertionHandler(in.user, in.body, in.id, in.assertion) )
              => ( /\ Names(resp'.message, AccountKeyTypeName)
                   /\ Names(resp'.message, in.assertion.type) ) ]_vars

C18_SetActiveChangesOnlyTheFlag ==
    [][ /\ Len(keypairs') >= Len(keypairs)
        /\ \A user \in Users, idText \in IDTexts, active \in BOOLEAN :
              ( /\ resp'.handler = IF active THEN "enable" ELSE "disable"
                /\ SetActiveHandler(resp'.handler, user, idText, active) )
                  => /\ Len(keypairs') = Len(keypairs)
                     /\ \A i \in 1..Len(keypairs) :
                          keypairs'[i] =
                              IF resp'.success /\ i = Atoi(idText).value
                              THEN [keypairs[i] EXCEPT !.active = active]
                              ELSE keypairs[i] ]_vars

\* C18, witness: a keypair that carries an assertion has been disabled while
\* another one is enabled.
C18_Witness ==
    /\ resp.handler = "disable"
    /\ resp.success
    /\ \E i, j \in 1..Len(keypairs) :
          /\ ~keypairs[i].active /\ keypairs[i].assertion # ""
          /\ keypairs[j].active

----------------------------------------------------------------------------
(* The claims of the specification, C19 and C20: the signing log *)

\* C19: the signing log is append-only: no step removes or changes an entry,
\* so every entry is there with the same fields in every later state.
C19_LogAppendOnly ==
    [][ /\ Len(signingLog') >= Len(signingLog)
        /\ \A i \in 1..Len(signingLog) : signingLog'[i] = signingLog[i] ]_vars

\* C19, witness: the log holds entries of two different devices, the second
\* just appended.
C19_Witness ==
    /\ resp.handler = "sign"
    /\ resp.code = "signed"
    /\ Len(signingLog) >= 2
    /\ ~SameDevice(signingLog[1], signingLog[2])

\* C20: a listing of the signing log holds only entries of authorities the
\* requester is permitted for.
C20_ListOnlyPermittedEntries ==
    resp.handler = "signinglog"
        => \A i \in 1..Len(resp.logs) : CheckUserInAccount(resp.user, resp.logs[i].make)

----------------------------------------------------------------------------
(* The claims of the specification, C21: the order of a signing request *)

\* Signer i appends its entry in this step
Appends(i) ==
    /\ signers[i].pc = "append"
    /\ signers'[i] = IdleSigner
    /\ signingLog' = CreateSigningLog(signers[i].device)

\* C21: a signing request validates and consumes its nonce first, then checks
\* the log for a duplicate, and only then signs and appends: a request enters
\* the check only by a successful Validate, reaches the append only from a
\* check that found no duplicate, and the log grows only by the append of a
\* request whose tuple has no entry in the log; a request whose validation
\* failed or whose check found a duplicate appends nothing.
C21_ValidateCheckThenAppend ==
    [][/\ \A i \in 1..MaxSigners :
            /\ (signers'[i].pc = "check" /\ signers[i].pc # "check")
                  => ( /\ signers[i].pc = "idle"
                       /\ \E n \in DOMAIN nonces :
                             /\ ValidateSucceeded(n)
                             /\ ~nonces[n].used /\ nonces'[n].used )
            /\ (signers'[i].pc = "append" /\ signers[i].pc # "append")
                  => ( /\ signers[i].pc = "check"
                       /\ Matching(signers[i].device) = {}
                       /\ signingLog' = signingLog )
       /\ signingLog' # signingLog
            => \E i \in 1..MaxSigners :
                  /\ Appends(i)
                  /\ Matching(signers[i].device) = {}
       /\ (resp' # resp /\ resp'.handler = "sign" /\ resp'.code # "signed")
            => signingLog' = signingLog]_vars

----------------------------------------------------------------------------
(* The claims of the specification, C23: import of a valid key *)

----------------------------------------------------------------------------
(* The claims of the specification, C24: listing the keypairs of an authority *)

\* The rows of the registry the requester of the listing may see
Visible(i) == CheckUserInAccount(resp.user, keypairs[i].authorityID)

\* C24: a successful listing for an authority holds exactly the keypairs of
\* the registry that the requester is allowed to see and whose authorityID is
\* the requested authority, each once and in the order of the registry; a
\* keypair of another authority, or of an authority the requester is not
\* permitted for, is in no listing, and a refused listing holds nothing.
C24_ListsPermittedKeypairsOfAuthority ==
    resp.handler = "list"
        => /\ \A j \in 1..Len(resp.keypairs) :
                /\ resp.keypairs[j].authorityID = resp.accountCode
                /\ CheckUserInAccount(resp.user, resp.keypairs[j].authorityID)
                /\ IsAdmin(resp.user)
           /\ resp.success
                => LET rows == { i \in 1..Len(keypairs) :
                                    Visible(i) /\ keypairs[i].authorityID = resp.accountCode }
                   IN  /\ Len(resp.keypairs) = Cardinality(rows)
                       /\ \A i \in rows : \E j \in 1..Len(resp.keypairs) :
                              /\ resp.keypairs[j] = keypairs[i]
                              /\ j = Cardinality({ h \in rows : h <= i })
           /\ ~resp.success => resp.keypairs = <<>>

\* C24, witness: the registry holds a keypair of each authority, and an
\* administrator of one authority alone has listed that authority: the
\* listing holds its keypair and not the other.
C24_Witness ==
    /\ resp.handler = "list"
    /\ resp.success
    /\ resp.user = "bob"
    /\ resp.accountCode = AuthB
    /\ Len(resp.keypairs) = 1
    /\ \E i \in 1..Len(keypairs) : keypairs[i].authorityID = AuthA
    /\ \E i \in 1..Len(keypairs) : keypairs[i] = resp.keypairs[1]

----------------------------------------------------------------------------
(* The claims of the specification, C25: polling is read-only *)

\* C25: a poll of the generation status, of one key or of all the keys the
\* user may see, leaves the tracker, the registry, the signing log and the
\* nonce store as they are, whether it succeeds, finds nothing or is refused.
C25_PollingIsReadOnly ==
    [][( \/ /\ resp'.handler = "status"
            /\ \E user \in Users, authorityID \in Authorities, keyName \in KeyNames :
                  KeypairStatusHandler(user, authorityID, keyName)
         \/ /\ resp'.handler = "progress"
            /\ \E user \in Users, fetchFails \in BOOLEAN :
                  KeypairStatusProgressHandler(user, fetchFails) )
          => /\ tracker' = tracker
             /\ keypairs' = keypairs
             /\ workers' = workers
             /\ signingLog' = signingLog
             /\ nonces' = nonces
             /\ issued' = issued
             /\ validated' = validated]_vars

\* C25, witness: the tracker holds a finished and an unfinished job, the
\* registry a keypair, the log an entry and the nonce store its nonces, and
\* the listing of all visible keys has answered with the finished job.
C25_Witness ==
    /\ resp.handler = "progress"
    /\ resp.success
    /\ \E ks \in resp.statuses : ks.status \in Terminal
    /\ \E k \in Keys : tracker[k].status = "Generating"
    /\ \A ks \in resp.statuses : tracker[<<ks.authorityID, ks.keyName>>].status = ks.status
    /\ Len(keypairs) > 0
    /\ Len(signingLog) > 0
    /\ DOMAIN nonces # {}

----------------------------------------------------------------------------
(* The claims of the specification, C26: the answer to an accepted generate
   request *)

\* C26: the response to an accepted generate request is 202 Accepted, and
\* the status URL of the (authorityID, keyName) that was handed to the worker
\* is delivered both in the Location header and in the message of the response.
C26_AcceptedCarriesStatusURL ==
    (resp.handler = "generate" /\ resp.success)
        => /\ resp.status = StatusAccepted
           /\ \E i \in 1..Len(workers) : WorkerKey(i) = PolledKey
           /\ resp.message = StatusURL(resp.authorityID, resp.keyName)
           /\ resp.location = StatusURL(resp.authorityID, resp.keyName)

----------------------------------------------------------------------------
(* The claims of the specification, C27: a request that fails verification *)

\* The request fails verification: its sender is no administrator, its body
\* is missing or does not parse, its authority-id is empty once trimmed, or
\* its sender is no member of the account of the authority
FailsVerification(in) ==
    \/ ~IsAdmin(in.user)
    \/ in.body # "json"
    \/ Len(TrimSpace(in.authorityID)) = 0
    \/ ~CheckUserInAccount(in.user, TrimSpace(in.authorityID))

\* C27: a create/import or generate request that fails verification is
\* answered with an error and has no effect: the registry, the tracker and
\* the goroutines started are as they were before it.
C27_FailedVerificationHasNoEffect ==
    [][\A in \in VerifyInputs, keyName \in KeyNames, privateKey \in ArmoredKeys :
          ( /\ resp'.handler \in {"create", "generate"}
            /\ FailsVerification(in)
            /\ \/ KeypairCreateHandler(in.user, in.body, in.authorityID, keyName, privateKey)
               \/ KeypairGenerateHandler(in.user, in.body, in.authorityID, keyName) )
              => ( /\ ~resp'.success
                   /\ resp'.code # ""
                   /\ keypairs' = keypairs
                   /\ tracker' = tracker
                   /\ workers' = workers )]_vars

\* C27, witness: an administrator who is no member of the account of the
\* authority was refused a generate request, while a job of that authority
\* is in the tracker and a keypair in the registry.
C27_Witness ==
    /\ resp.handler = "generate"
    /\ ~resp.success
    /\ resp.code = "error-auth"
    /\ resp.status = StatusBadRequest
    /\ resp.authorityID = AuthA
    /\ tracker[PolledKey].status # "none"
    /\ Len(keypairs) > 0

----------------------------------------------------------------------------
(* The claims of the specification, C28: the transaction helper *)

\* C28: a call of the transaction helper that has begun a transaction ends
\* it with exactly one of commit and rollback: it commits if and only if the
\* function returned no error and did not panic, and rolls back otherwise;
\* it returns the function's error, or the error of the commit, and it
\* panics again, after the rollback, when the function panicked.
C28_TransactionEndsOnceAndReturnsError ==
    (tx.pc \in {"returned", "panicked"} /\ tx.began)
        => /\ tx.commits + tx.rollbacks = 1
           /\ tx.commits = 1 <=> tx.fn = "ok"
           /\ tx.pc = "panicked" <=> tx.fn = "panic"
           /\ (tx.commits = 0 \/ tx.commitErr # "") => tx.stored = tx.pending
           /\ tx.pc = "returned"
                => tx.result = IF tx.fn = "ok" THEN tx.commitErr ELSE "fn-error"

====
